---- MODULE Spec2Model ----
(***************************************************************************)
(* Model of simple-color-palette (src/index.js): the Color class with its  *)
(* linear-sRGB storage, 4-decimal rounding, hex parsing, and the           *)
(* ColorPalette container with serialize / deserialize.                    *)
(*                                                                         *)
(* Numbers.  A finite JavaScript number x is modelled by the integer       *)
(* x * Unit (fixed point, eight decimals).  TLC integers are 32 bit, so    *)
(* products and quotients are computed in two halves (Mul, MulDiv).        *)
(* A JavaScript value handed to an API is a record [t, v]: t is the        *)
(* result of typeof (with "null" and "array" told apart), v the number.    *)
(* Where a tolerance of 10^-9 is in question, the transfer functions are   *)
(* computed a second time on numbers x * 10^12, kept as sequences of       *)
(* digits (sRGBToLinearFine, linearToSRGBFine).                            *)
(***************************************************************************)
EXTENDS Integers, Sequences, FiniteSets, TLC

VARIABLES
    heap,      \* the Color objects created so far; an object's index is its identity
    arr,       \* the caller's array, later handed to the ColorPalette constructor
    palette,   \* the palette the caller holds, once one has been constructed
    last,      \* the latest call: operation, argument, return value or error
    input      \* the argument drawn for a call of a pure function

vars == <<heap, arr, palette, last, input>>

----------------------------------------------------------------------------
(* Fixed-point arithmetic                                                  *)

\* const multiplier = 10_000 of roundToFourDecimals; the fixed point has
\* twice as many decimals, so that a product splits at the same place
multiplier == 10000
Half == multiplier
Unit == Half * Half

\* floor(a * b / Unit) for a, b >= 0, both below 4.6 * Unit
MulU(a, b) ==
    LET ah == a \div Half
        al == a % Half
        bh == b \div Half
        bl == b % Half
    IN  ah * bh + ((ah * bl + al * bh) + ((al * bl) \div Half)) \div Half

\* floor(a * n / d) for small positive n, d
MulDiv(a, n, d) == (a \div d) * n + ((a % d) * n) \div d

Pow5(r) == MulU(MulU(MulU(MulU(r, r), r), r), r)

RECURSIVE Root5(_, _, _)
\* the largest r in lo..hi with r^5 <= q, by bisection
Root5(q, lo, hi) ==
    IF hi - lo <= 1 THEN lo
    ELSE LET mid == (lo + hi) \div 2
         IN  IF Pow5(mid) <= q THEN Root5(q, mid, hi) ELSE Root5(q, lo, mid)

\* y ** 2.4 = y^2 * (y^2)^(1/5), for 0 <= y < 3.5 * Unit
Pow24(y) ==
    LET q == MulU(y, y)
    IN  MulU(q, Root5(q, 0, (18 * Unit) \div 10))

----------------------------------------------------------------------------
(* Helpers of src/index.js                                                 *)

\* mutant: the value is cut off after four decimals instead of rounded
roundToFourDecimals_truncate(number) == (number \div multiplier) * multiplier

\* Math.round(number * 10000) / 10000; Math.round is floor(x + 0.5)
roundToFourDecimals(number) ==
    ((number + multiplier \div 2) \div multiplier) * multiplier

sRGBToLinear(srgb) ==
    IF srgb <= 4045000
    THEN MulDiv(srgb, 100, 1292)
    ELSE Pow24(MulDiv(srgb + 5500000, 1000, 1055))

Min(a, b) == IF a <= b THEN a ELSE b
Max(a, b) == IF a >= b THEN a ELSE b

\* mutant: the lower bound of the clamp is forgotten
clampOpacity_upperOnly(value) == Min(Unit, value)

clampOpacity(value) == Max(0, Min(Unit, value))

----------------------------------------------------------------------------
(* The transfer functions at a resolution of 10^-12                        *)

\* A number x >= 0 is the natural number x * 10^12, written as its digits
\* to the base 10^4, lowest first; numbers of this size do not fit an
\* integer of the checker.
Limb == Half
FineUnit == <<0, 0, 0, 1>>

Digit(a, k) == IF k \in DOMAIN a THEN a[k] ELSE 0

RECURSIVE Trim(_)
Trim(a) == IF a # <<>> /\ a[Len(a)] = 0 THEN Trim(SubSeq(a, 1, Len(a) - 1)) ELSE a

RECURSIVE Carry(_, _, _)
\* the digits of the number whose digit sums are raw
Carry(raw, k, c) ==
    IF k > Len(raw)
    THEN IF c = 0 THEN <<>> ELSE <<c % Limb>> \o Carry(raw, k + 1, c \div Limb)
    ELSE LET t == raw[k] + c
         IN  <<t % Limb>> \o Carry(raw, k + 1, t \div Limb)

BigAdd(a, b) ==
    Trim(Carry([k \in 1..Max(Len(a), Len(b)) |-> Digit(a, k) + Digit(b, k)], 1, 0))

RECURSIVE LeqFrom(_, _, _)
LeqFrom(a, b, k) ==
    IF k = 0 THEN TRUE
    ELSE IF Digit(a, k) # Digit(b, k) THEN Digit(a, k) < Digit(b, k)
    ELSE LeqFrom(a, b, k - 1)

BigLeq(a, b) == LeqFrom(a, b, Max(Len(a), Len(b)))

\* a - b for a >= b
BigSub(a, b) ==
    Trim(Carry([k \in 1..Max(Len(a), Len(b)) |-> Digit(a, k) - Digit(b, k)], 1, 0))

\* |a - b|
BigDist(a, b) == IF BigLeq(a, b) THEN BigSub(b, a) ELSE BigSub(a, b)

RECURSIVE ConvSum(_, _, _, _)
ConvSum(a, b, k, i) ==
    IF i > Len(a) \/ i > k THEN 0
    ELSE Digit(b, k - i + 1) * a[i] + ConvSum(a, b, k, i + 1)

\* a * b, the shorter factor first
BigMul(a, b) ==
    IF Len(a) > Len(b)
    THEN Trim(Carry([k \in 1..(Len(a) + Len(b)) |-> ConvSum(b, a, k, 1)], 1, 0))
    ELSE Trim(Carry([k \in 1..(Len(a) + Len(b)) |-> ConvSum(a, b, k, 1)], 1, 0))

\* a * n and floor(a / n) for a small natural number n
BigMulSmall(a, n) == Trim(Carry([k \in DOMAIN a |-> a[k] * n], 1, 0))

RECURSIVE DivFrom(_, _, _, _)
DivFrom(a, n, k, rem) ==
    IF k = 0 THEN <<>>
    ELSE LET t == rem * Limb + a[k]
         IN  DivFrom(a, n, k - 1, t % n) \o <<t \div n>>

BigDivSmall(a, n) == Trim(DivFrom(a, n, Len(a), 0))

\* the number of Unit resolution x, plus e * 10^-12
Fine(x, e) == Trim(<<e, x % Limb, (x \div Limb) % Limb, x \div Unit>>)

BigPow5(a) == LET a2 == BigMul(a, a) IN BigMul(BigMul(a2, a2), a)
BigPow12(a) ==
    LET a2 == BigMul(a, a)
        a4 == BigMul(a2, a2)
    IN  BigMul(BigMul(a4, a4), a4)

\* l^5 and y^12 on a common scale: (L / 10^12)^5 = L^5 * 10^84 / 10^144
Scale5(p) == [k \in 1..21 |-> 0] \o p

RECURSIVE Root12(_, _, _)
\* the largest r in lo..hi-1 with r^12 <= q, by bisection
Root12(q, lo, hi) ==
    IF BigLeq(hi, BigAdd(lo, <<1>>)) THEN lo
    ELSE LET mid == BigDivSmall(BigAdd(lo, hi), 2)
         IN  IF BigLeq(BigPow12(mid), q) THEN Root12(q, mid, hi) ELSE Root12(q, lo, mid)

RECURSIVE Root5Fine(_, _, _)
\* the largest l in lo..hi-1 with l^5 * 10^84 <= q
Root5Fine(q, lo, hi) ==
    IF BigLeq(hi, BigAdd(lo, <<1>>)) THEN lo
    ELSE LET mid == BigDivSmall(BigAdd(lo, hi), 2)
         IN  IF BigLeq(Scale5(BigPow5(mid)), q)
             THEN Root5Fine(q, mid, hi) ELSE Root5Fine(q, lo, mid)

\* sRGBToLinear for 0 <= srgb <= 1
sRGBToLinearFine(srgb) ==
    IF BigLeq(srgb, Fine(4045000, 0))
    THEN BigDivSmall(BigMulSmall(srgb, 100), 1292)
    ELSE LET y == BigDivSmall(BigMulSmall(BigAdd(srgb, Fine(5500000, 0)), 1000), 1055)
         IN  Root5Fine(BigPow12(y), <<>>, BigAdd(FineUnit, FineUnit))

\* mutant: the linear piece has the slope 12.9
linearToSRGBFine_slope(linear) ==
    IF BigLeq(linear, Fine(313080, 0))
    THEN BigDivSmall(BigMulSmall(linear, 1290), 100)
    ELSE LET r == Root12(Scale5(BigPow5(linear)), <<>>, BigAdd(FineUnit, FineUnit))
         IN  BigSub(BigDivSmall(BigMulSmall(r, 1055), 1000), Fine(5500000, 0))

\* linearToSRGB for 0 <= linear <= 1
linearToSRGBFine(linear) ==
    IF BigLeq(linear, Fine(313080, 0))
    THEN BigDivSmall(BigMulSmall(linear, 1292), 100)
    ELSE LET r == Root12(Scale5(BigPow5(linear)), <<>>, BigAdd(FineUnit, FineUnit))
         IN  BigSub(BigDivSmall(BigMulSmall(r, 1055), 1000), Fine(5500000, 0))

\* Math.round(number * 10000) / 10000 for number >= 0
roundToFourDecimalsFine(number) ==
    LET sum == BigAdd(number, <<0, Limb \div 2>>)
    IN  Trim(<<0, 0>> \o SubSeq(sum, 3, Len(sum)))

\* the spec's tolerance of 10^-9 for a round trip through both functions
Tolerance == <<1000>>

----------------------------------------------------------------------------
(* JavaScript values                                                       *)

Num(n)    == [t |-> "number", v |-> n, s |-> ""]
Str(x)    == [t |-> "string", v |-> 0, s |-> x]
Undefined == [t |-> "undefined", v |-> 0, s |-> ""]
Null      == [t |-> "null", v |-> 0, s |-> ""]
Arr(xs)   == [t |-> "array", items |-> xs]
Obj(f)    == [t |-> "object", fields |-> f]
ColorRef(i) == [t |-> "Color", ref |-> i]

\* ToBoolean, as used by if (this.name) and this.name && ...
Truthy(x) ==
    CASE x.t = "number" -> x.v # 0
      [] x.t = "string" -> x.s # ""
      [] x.t \in {"undefined", "null"} -> FALSE
      [] OTHER -> TRUE

\* strict equality of two scalar values
SameValue(a, b) == a.t = b.t /\ a.v = b.v /\ a.s = b.s

\* the outcome of a call: a return value or a thrown error
Ok(val) == [ok |-> TRUE, errType |-> "", errMsg |-> "", val |-> val]
Throw(type, msg) == [ok |-> FALSE, errType |-> type, errMsg |-> msg, val |-> Null]

----------------------------------------------------------------------------
(* class Color                                                             *)

\* mutant: only a missing or null value is refused
validateComponent_nullish(value, name) ==
    IF value.t \in {"undefined", "null"}
    THEN Throw("TypeError", name \o " component must be a number")
    ELSE Ok(Null)

validateComponent(value, name) ==
    IF value.t # "number"
    THEN Throw("TypeError", name \o " component must be a number")
    ELSE Ok(Null)

\* the argument object of the constructor; a missing property is Undefined
Options(name, red, green, blue, opacity, isLinear) ==
    [name |-> name, red |-> red, green |-> green, blue |-> blue,
     opacity |-> opacity, isLinear |-> isLinear]

\* new Color({name, red, green, blue, opacity = 1, isLinear = false})
Color(options) ==
    LET red == options.red
        green == options.green
        blue == options.blue
        opacity == IF options.opacity.t = "undefined" THEN Num(Unit) ELSE options.opacity
        conv(x) == roundToFourDecimals(IF options.isLinear THEN x ELSE sRGBToLinear(x))
    IN  CASE ~validateComponent(red, "Red").ok -> validateComponent(red, "Red")
          [] ~validateComponent(green, "Green").ok -> validateComponent(green, "Green")
          [] ~validateComponent(blue, "Blue").ok -> validateComponent(blue, "Blue")
          [] ~validateComponent(opacity, "Opacity").ok -> validateComponent(opacity, "Opacity")
          [] OTHER ->
               Ok([name |-> options.name,
                   linearRed |-> conv(red.v),
                   linearGreen |-> conv(green.v),
                   linearBlue |-> conv(blue.v),
                   opacity |-> roundToFourDecimals(clampOpacity(opacity.v))])

\* set red(value), set green(value), set blue(value): no rounding
setRed(c, value) ==
    IF value.t # "number"
    THEN Throw("TypeError", "Red component must be a number")
    ELSE Ok([c EXCEPT !.linearRed = sRGBToLinear(value.v)])

setGreen(c, value) ==
    IF value.t # "number"
    THEN Throw("TypeError", "Green component must be a number")
    ELSE Ok([c EXCEPT !.linearGreen = sRGBToLinear(value.v)])

setBlue(c, value) ==
    IF value.t # "number"
    THEN Throw("TypeError", "Blue component must be a number")
    ELSE Ok([c EXCEPT !.linearBlue = sRGBToLinear(value.v)])

\* mutant: what is no number counts as 0
setOpacity_lenient(c, value) ==
    IF value.t # "number"
    THEN Ok([c EXCEPT !.opacity = 0])
    ELSE Ok([c EXCEPT !.opacity = clampOpacity(value.v)])

\* set opacity(value): clamped, not rounded
setOpacity(c, value) ==
    IF value.t # "number"
    THEN Throw("TypeError", "Opacity must be a number")
    ELSE Ok([c EXCEPT !.opacity = clampOpacity(value.v)])

\* get opacity()
getOpacity(c) == c.opacity

linearComponents(c) ==
    [red |-> c.linearRed, green |-> c.linearGreen, blue |-> c.linearBlue,
     opacity |-> c.opacity]

\* mutant: the opacity is always written
toJSON_withOpacity(c) ==
    LET components == <<Num(roundToFourDecimals(c.linearRed)),
                        Num(roundToFourDecimals(c.linearGreen)),
                        Num(roundToFourDecimals(c.linearBlue)),
                        Num(roundToFourDecimals(c.opacity))>>
    IN  IF Truthy(c.name)
        THEN Obj([components |-> Arr(components), name |-> c.name])
        ELSE Obj([components |-> Arr(components)])

\* Color.prototype.toJSON: the object JSON.stringify writes for a color
toJSON(c) ==
    LET components ==
            LET rgb == <<Num(roundToFourDecimals(c.linearRed)),
                         Num(roundToFourDecimals(c.linearGreen)),
                         Num(roundToFourDecimals(c.linearBlue))>>
            IN  IF c.opacity # Unit
                THEN Append(rgb, Num(roundToFourDecimals(c.opacity)))
                ELSE rgb
    IN  IF Truthy(c.name)
        THEN Obj([components |-> Arr(components), name |-> c.name])
        ELSE Obj([components |-> Arr(components)])

\* The channel accessors and toJSON on a Color whose four numbers are kept
\* at the resolution of 10^-12; the values written are numbers.

\* mutant: the setter rounds as the constructor does
setRedFine_rounded(c, value) ==
    [c EXCEPT !.linearRed = roundToFourDecimalsFine(sRGBToLinearFine(value))]

getRedFine(c) == linearToSRGBFine(c.linearRed)
setRedFine(c, value) == [c EXCEPT !.linearRed = sRGBToLinearFine(value)]

getGreenFine(c) == linearToSRGBFine(c.linearGreen)
setGreenFine(c, value) == [c EXCEPT !.linearGreen = sRGBToLinearFine(value)]

getBlueFine(c) == linearToSRGBFine(c.linearBlue)
setBlueFine(c, value) == [c EXCEPT !.linearBlue = sRGBToLinearFine(value)]

\* the components array of toJSON; the opacity of these colors is 1
toJSONFine(c) ==
    <<roundToFourDecimalsFine(c.linearRed),
      roundToFourDecimalsFine(c.linearGreen),
      roundToFourDecimalsFine(c.linearBlue)>>

----------------------------------------------------------------------------
(* Hex construction                                                        *)

\* A JavaScript number handed to fromHexNumber.  Integers up to 2^32 do not
\* fit a TLC integer, so the magnitude is kept as two 16-bit halves:
\* the value is (neg ? -1 : 1) * (hi * 65536 + lo), plus a fraction if frac.
HexNumber(neg, hi, lo, frac) ==
    [t |-> "number", neg |-> neg, hi |-> hi, lo |-> lo, frac |-> frac]

Pow2(k) == 2 ^ k

\* hex >> k: ToInt32 wraps the operand to a signed 32-bit integer, then the
\* shift is arithmetic (floor division by 2^k)
ShiftRight(hex, k) ==
    LET high == hex.hi % 65536
        shi == IF high >= 32768 THEN high - 65536 ELSE high
    IN  IF k >= 16
        THEN shi \div Pow2(k - 16)
        ELSE shi * Pow2(16 - k) + (hex.lo \div Pow2(k))

\* x & mask for a mask 2^j - 1: the low j bits of the two's complement of x
BitAnd(x, mask) == x % (mask + 1)

\* n / d as a fixed-point number
Ratio(n, d) == MulDiv(Unit, n, d)

\* mutant: the comparison is strict
AtMost_strict(hex, boundHi, boundLo) ==
    hex.hi < boundHi \/ (hex.hi = boundHi /\ hex.lo < boundLo)

\* hex <= bound, for bound = boundHi * 65536 + boundLo and hex >= 0
AtMost(hex, boundHi, boundLo) ==
    hex.hi < boundHi \/ (hex.hi = boundHi /\ hex.lo <= boundLo)

fromHexNumber(hex) ==
    IF hex.t # "number" \/ hex.frac \/ (hex.neg /\ (hex.hi # 0 \/ hex.lo # 0))
    THEN Throw("Error", "Invalid hex value")
    ELSE LET rgba(red, green, blue, opacity) ==
                 Color(Options(Undefined, Num(red), Num(green), Num(blue),
                               Num(opacity), FALSE))
         IN  CASE AtMost(hex, 0, 4095) ->
                    rgba(Ratio(BitAnd(ShiftRight(hex, 8), 15), 15),
                         Ratio(BitAnd(ShiftRight(hex, 4), 15), 15),
                         Ratio(BitAnd(ShiftRight(hex, 0), 15), 15),
                         Unit)
               [] AtMost(hex, 0, 65535) ->
                    rgba(Ratio(BitAnd(ShiftRight(hex, 12), 15), 15),
                         Ratio(BitAnd(ShiftRight(hex, 8), 15), 15),
                         Ratio(BitAnd(ShiftRight(hex, 4), 15), 15),
                         Ratio(BitAnd(ShiftRight(hex, 0), 15), 15))
               [] AtMost(hex, 255, 65535) ->
                    rgba(Ratio(BitAnd(ShiftRight(hex, 16), 255), 255),
                         Ratio(BitAnd(ShiftRight(hex, 8), 255), 255),
                         Ratio(BitAnd(ShiftRight(hex, 0), 255), 255),
                         Unit)
               [] AtMost(hex, 65535, 65535) ->
                    rgba(Ratio(BitAnd(ShiftRight(hex, 24), 255), 255),
                         Ratio(BitAnd(ShiftRight(hex, 16), 255), 255),
                         Ratio(BitAnd(ShiftRight(hex, 8), 255), 255),
                         Ratio(BitAnd(ShiftRight(hex, 0), 255), 255))
               [] OTHER -> Throw("Error", "Invalid hex value")

\* A string is a sequence of one-character strings.
HexDigitValue ==
    [c \in {"0", "1", "2", "3", "4", "5", "6", "7", "8", "9"} |->
        CASE c = "0" -> 0 [] c = "1" -> 1 [] c = "2" -> 2 [] c = "3" -> 3
          [] c = "4" -> 4 [] c = "5" -> 5 [] c = "6" -> 6 [] c = "7" -> 7
          [] c = "8" -> 8 [] c = "9" -> 9]
    @@ [c \in {"a", "b", "c", "d", "e", "f"} |->
        CASE c = "a" -> 10 [] c = "b" -> 11 [] c = "c" -> 12 [] c = "d" -> 13
          [] c = "e" -> 14 [] c = "f" -> 15]
    @@ [c \in {"A", "B", "C", "D", "E", "F"} |->
        CASE c = "A" -> 10 [] c = "B" -> 11 [] c = "C" -> 12 [] c = "D" -> 13
          [] c = "E" -> 14 [] c = "F" -> 15]

IsHexDigit(c) == c \in DOMAIN HexDigitValue

WhiteSpace == {" ", "\t", "\n"}

RECURSIVE trimStart(_)
trimStart(str) ==
    IF str # <<>> /\ Head(str) \in WhiteSpace THEN trimStart(Tail(str)) ELSE str

RECURSIVE trimEnd(_)
trimEnd(str) ==
    IF str # <<>> /\ str[Len(str)] \in WhiteSpace
    THEN trimEnd(SubSeq(str, 1, Len(str) - 1))
    ELSE str

\* String.prototype.trim
trim(str) == trimEnd(trimStart(str))

\* [...withoutHash].map(x => x + x).join('')
Doubled(str) == [i \in 1..(2 * Len(str)) |-> str[(i + 1) \div 2]]

\* mutant: the pattern is not anchored at the end
MatchesHexPattern_unanchored(str) ==
    /\ Len(str) >= 6
    /\ \A i \in 1..6 : IsHexDigit(str[i])

\* /^[\da-f]{6}([\da-f]{2})?$/i
MatchesHexPattern(str) ==
    /\ Len(str) \in {6, 8}
    /\ \A i \in 1..Len(str) : IsHexDigit(str[i])

RECURSIVE DigitsValue(_)
\* the value of a short string of hex digits
DigitsValue(str) ==
    IF str = <<>> THEN 0
    ELSE 16 * DigitsValue(SubSeq(str, 1, Len(str) - 1)) + HexDigitValue[str[Len(str)]]

\* Number.parseInt(expanded, 16), as a HexNumber: the digits up to the first
\* character that is no hex digit are read, and no digit at all gives NaN
parseInt16(str) ==
    LET stops == {i \in 1..Len(str) : ~IsHexDigit(str[i])}
        count == IF stops = {} THEN Len(str)
                 ELSE (CHOOSE i \in stops : \A j \in stops : i <= j) - 1
        digits == SubSeq(str, 1, count)
    IN  HexNumber(FALSE,
                  DigitsValue(SubSeq(digits, 1, count - 4)),
                  DigitsValue(SubSeq(digits, Max(1, count - 3), count)),
                  count = 0)

fromHexString(hex) ==
    LET string == trim(hex)
        withoutHash == IF string # <<>> /\ Head(string) = "#" THEN Tail(string) ELSE string
        expanded == IF Len(withoutHash) = 3 \/ Len(withoutHash) = 4
                    THEN Doubled(withoutHash)
                    ELSE withoutHash
    IN  IF ~MatchesHexPattern(expanded)
        THEN Throw("Error", "Invalid hex color format")
        ELSE fromHexNumber(parseInt16(expanded))

----------------------------------------------------------------------------
(* JSON documents and validation                                           *)

\* x[key] for a parsed JSON value x: reading a property of null throws,
\* a property the value does not have reads as undefined
GetProp(x, key) ==
    CASE x.t = "null" ->
           Throw("TypeError", "Cannot read properties of null (reading '" \o key \o "')")
      [] x.t = "object" /\ key \in DOMAIN x.fields -> Ok(x.fields[key])
      [] OTHER -> Ok(Undefined)

\* the first element of a sequence of outcomes that threw, if any
FirstThrow(outcomes) ==
    IF \E i \in DOMAIN outcomes : ~outcomes[i].ok
    THEN outcomes[CHOOSE i \in DOMAIN outcomes :
                    /\ ~outcomes[i].ok
                    /\ \A j \in DOMAIN outcomes : j < i => outcomes[j].ok]
    ELSE Ok(Null)

validateColorComponent(color) ==
    LET read == GetProp(color, "components")
        components == read.val
    IN  CASE ~read.ok -> read
          [] components.t # "array" ->
               Throw("TypeError", "Components must be an array")
          [] Len(components.items) # 3 /\ Len(components.items) # 4 ->
               Throw("Error", "Components must have 3 or 4 values")
          [] \E i \in DOMAIN components.items :
                \/ components.items[i].t # "number"
                \/ components.items[i].v < 0 ->
               Throw("Error", "Component values must be numbers")
          [] OTHER -> Ok(Null)

validatePalette(parsed) ==
    LET read == GetProp(parsed, "colors")
        colors == read.val
    IN  CASE ~read.ok -> read
          [] colors.t # "array" -> Throw("TypeError", "Colors must be an array")
          [] OTHER ->
               FirstThrow([i \in DOMAIN colors.items |->
                              validateColorComponent(colors.items[i])])

----------------------------------------------------------------------------
(* class ColorPalette                                                      *)

\* a Color instance held by value
Instance(c) == [t |-> "Color", obj |-> c]

\* mutant: the elements are not checked
ColorPalette_unchecked(options) ==
    LET colors == IF options.colors.t = "undefined" THEN Arr(<<>>) ELSE options.colors
    IN  IF colors.t # "array"
        THEN Throw("TypeError", "The colors must be an array")
        ELSE Ok([name |-> options.name, colors |-> colors.items, ownArray |-> TRUE])

\* mutant: this.colors = colors, the caller's array itself
ColorPalette_aliased(options) ==
    LET colors == IF options.colors.t = "undefined" THEN Arr(<<>>) ELSE options.colors
    IN  CASE colors.t # "array" ->
               Throw("TypeError", "The colors must be an array")
          [] \E i \in DOMAIN colors.items : colors.items[i].t # "Color" ->
               Throw("TypeError", "Each color must be an instance of Color")
          [] OTHER ->
               Ok([name |-> options.name, colors |-> colors.items,
                   ownArray |-> options.colors.t = "undefined"])

\* new ColorPalette({colors = [], name}); this.colors = [...colors] is an
\* array of the palette's own (ownArray) holding the same elements
ColorPalette(options) ==
    LET colors == IF options.colors.t = "undefined" THEN Arr(<<>>) ELSE options.colors
    IN  CASE colors.t # "array" ->
               \* the source quotes the word colors in backquotes
               Throw("TypeError", "The colors must be an array")
          [] \E i \in DOMAIN colors.items : colors.items[i].t # "Color" ->
               Throw("TypeError", "Each color must be an instance of Color")
          [] OTHER ->
               Ok([name |-> options.name, colors |-> colors.items, ownArray |-> TRUE])

\* The text handed to JSON.parse or returned by JSON.stringify: either
\* well-formed JSON, given by its value, or text that is not JSON.
JSONText(value) == [t |-> "json", value |-> value]
Malformed == [t |-> "malformed", value |-> Null]

JSONparse(data) ==
    IF data.t = "json" THEN Ok(data.value)
    ELSE Throw("SyntaxError", "Unexpected token '/', \"/\" is not valid JSON")

\* ColorPalette.prototype.toJSON, with Color.prototype.toJSON applied to
\* each color as JSON.stringify does
paletteToJSON(p) ==
    LET colors == Arr([i \in DOMAIN p.colors |-> toJSON(p.colors[i].obj)])
    IN  IF Truthy(p.name)
        THEN Obj([name |-> p.name, colors |-> colors])
        ELSE Obj([colors |-> colors])

serialize(p) == JSONText(paletteToJSON(p))

\* const [red, green, blue, opacity = 1] = color.components, and the
\* Color constructed from them
colorFromEntry(color) ==
    LET components == color.fields.components.items
        opacity == IF Len(components) >= 4 THEN components[4].v ELSE Unit
    IN  Color(Options(GetProp(color, "name").val,
                      Num(roundToFourDecimals(components[1].v)),
                      Num(roundToFourDecimals(components[2].v)),
                      Num(roundToFourDecimals(components[3].v)),
                      Num(roundToFourDecimals(opacity)),
                      TRUE))

deserialize(data) ==
    LET parsed == JSONparse(data)
        valid == validatePalette(parsed.val)
    IN  CASE ~parsed.ok -> parsed
          [] ~valid.ok -> valid
          [] OTHER ->
               LET entries == parsed.val.fields.colors.items
                   made == [i \in DOMAIN entries |-> colorFromEntry(entries[i])]
               IN  IF \E i \in DOMAIN made : ~made[i].ok
                   THEN FirstThrow(made)
                   ELSE ColorPalette(
                            [colors |-> Arr([i \in DOMAIN made |-> Instance(made[i].val)]),
                             name |-> GetProp(parsed.val, "name").val])

----------------------------------------------------------------------------
(* Bounds and the inputs the calls are made with                           *)

MaxColors == 2        \* Color objects on the heap
MaxHexLen == 9        \* hex digits in a hex string
MaxBadLen == 4        \* characters in a string of mixed characters
MaxEntries == 2       \* color entries of a document
MaxComponents == 5    \* values in a components array

SeqsUpTo(S, n) == UNION {[1..k -> S] : k \in 0..n}

Bool(b) == [t |-> "boolean", v |-> IF b THEN 1 ELSE 0, s |-> ""]
EmptyObject == Obj(<<>>)

\* 0.12345 and its neighbours are the rounding cases of the test suite;
\* 0.03125 = 1/32 is a half at the fifth decimal that a double holds exactly
ChannelArgs ==
    {Num(12345000), Num(12350000), Num(12344000), Num(3125000),
     Num(150000000), Num(0 - 50000000), Num(0 - 12345000),
     Undefined, Str("invalid")}

OpacityArgs ==
    {Num(12349000), Num(12345000), Num(150000000), Num(0 - 50000000),
     Undefined, Null, Str("invalid")}

CtorInputs ==
    {Options(n, r, g, b, o, l) :
        n \in {Undefined, Str("Test")}, r \in ChannelArgs, g \in ChannelArgs,
        b \in ChannelArgs, o \in OpacityArgs, l \in BOOLEAN}

\* the colors the palette scenarios are built from
PaletteColorArgs ==
    {Options(Str("Red"), Num(Unit), Num(0), Num(0), Undefined, FALSE),
     Options(Str("Green"), Num(0), Num(Unit), Num(0), Num(50000000), FALSE),
     Options(Undefined, Num(150000000), Num(50000000), Num(20000000),
             Num(12349000), FALSE),
     Options(Str("Blue"), Num(0), Num(0), Num(Unit), Undefined, FALSE),
     Options(Undefined, Num(0 - 50000000), Num(0), Num(0), Undefined, FALSE),
     Options(Undefined, Str("invalid"), Num(0), Num(0), Undefined, FALSE)}

\* one color, then written through its setters
SetterColorArgs ==
    {Options(n, Num(50000000), Num(12345000), Num(0), o, l) :
        n \in {Undefined, Str("Test")},
        o \in {Undefined, Num(12349000), Num(150000000), Num(0 - 50000000)},
        l \in BOOLEAN}

SetterArgs ==
    {Num(55555000), Num(150000000), Num(0 - 50000000), Str("invalid"),
     Undefined, Null}

\* long strings of digits, and short strings of digits in either case,
\* characters that are no hex digits, inner spaces and hashes
HexDigits == {"0", "F"}
OtherChars == {"a", "F", "g", "#", " "}
Pads == {<<>>, <<" ">>}

HexStrings ==
    {pre \o hash \o body \o post :
        pre \in Pads, hash \in {<<>>, <<"#">>}, post \in Pads,
        body \in SeqsUpTo(HexDigits, MaxHexLen) \cup SeqsUpTo(OtherChars, MaxBadLen)}

HexHalves == {0, 1, 15, 18, 128, 255, 256, 3840, 4095, 4096, 13398,
              32767, 32768, 65280, 65535}

HexNumbers ==
    {HexNumber(FALSE, hi, lo, FALSE) : hi \in HexHalves, lo \in HexHalves}
    \cup {HexNumber(FALSE, 65536, lo, FALSE) : lo \in {0, 1}}
    \cup {HexNumber(TRUE, hi, lo, FALSE) : hi \in {0, 1}, lo \in {1, 255}}
    \cup {HexNumber(neg, hi, lo, TRUE) : neg \in BOOLEAN, hi \in {0, 255}, lo \in {0, 15}}
    \cup {[HexNumber(FALSE, 0, 255, FALSE) EXCEPT !.t = "string"],
          [HexNumber(FALSE, 0, 0, FALSE) EXCEPT !.t = "undefined"]}

HexInputs ==
    {[t |-> "hexString", chars |-> str] : str \in HexStrings}
    \cup {[t |-> "hexNumber", n |-> n] : n \in HexNumbers}

\* components arrays: all values valid, or one position holding a bad value
GoodComponent == Num(12345000)
BadComponents == {Num(0 - Unit), Str("1"), Null}

ComponentLists ==
    {[i \in 1..k |-> GoodComponent] : k \in 0..MaxComponents}
    \cup {[i \in 1..k |-> IF i = pos THEN bad ELSE GoodComponent] :
            k \in {3, 4}, pos \in 1..4, bad \in BadComponents}

Entries ==
    {Null, Num(Unit), Str("red"), EmptyObject, Arr(<<>>),
     Obj([components |-> Str("invalid")]),
     Obj([components |-> Null]),
     Obj([components |-> Arr(<<GoodComponent, Num(0), Num(Unit)>>), name |-> Str("Red")])}
    \cup {Obj([components |-> Arr(cs)]) : cs \in ComponentLists}

TopLevels ==
    {Null, Num(Unit), Str("colors"), Bool(TRUE), Arr(<<>>), EmptyObject,
     Obj([name |-> Str("Test")]),
     Obj([colors |-> Null]), Obj([colors |-> Str("invalid")]),
     Obj([colors |-> EmptyObject]), Obj([colors |-> Num(0)])}
    \cup {Obj([colors |-> Arr(es)]) : es \in SeqsUpTo(Entries, MaxEntries)}
    \cup {Obj([colors |-> Arr(es), name |-> Str("Test")]) : es \in SeqsUpTo(Entries, 1)}

DocInputs == {Malformed} \cup {JSONText(v) : v \in TopLevels}

----------------------------------------------------------------------------
(* State machine                                                           *)

\* shared: the palette's colors is the very array the caller holds in arr
NoPalette == [exists |-> FALSE, name |-> Undefined, colors |-> <<>>, shared |-> FALSE]

Call(op, arg, outcome, ret) ==
    [op |-> op, arg |-> arg, ok |-> outcome.ok, errType |-> outcome.errType,
     errMsg |-> outcome.errMsg, ret |-> ret]

InitBase ==
    /\ heap = <<>>
    /\ arr = <<>>
    /\ palette = NoPalette
    /\ last = Call("init", Null, Ok(Null), Null)

Init == InitBase /\ input = Null

\* the palette with its colors read through their references
View(p) ==
    [name |-> p.name,
     colors |-> [k \in DOMAIN p.colors |-> Instance(heap[p.colors[k].ref])]]

\* new Color(options): the new object is kept on the heap
NewColor(options) ==
    /\ Len(heap) < MaxColors
    /\ LET r == Color(options)
       IN  /\ heap' = IF r.ok THEN Append(heap, r.val) ELSE heap
           /\ last' = Call("new Color", options, r,
                           IF r.ok THEN ColorRef(Len(heap) + 1) ELSE Null)
    /\ UNCHANGED <<arr, palette, input>>

\* Color.fromHexString(input), Color.fromHexNumber(input)
FromHexString ==
    /\ last.op = "init"
    /\ input.t = "hexString"
    /\ LET r == fromHexString(input.chars)
       IN  /\ heap' = IF r.ok THEN Append(heap, r.val) ELSE heap
           /\ last' = Call("fromHexString", input, r,
                           IF r.ok THEN ColorRef(Len(heap) + 1) ELSE Null)
    /\ UNCHANGED <<arr, palette, input>>

FromHexNumber ==
    /\ last.op = "init"
    /\ input.t = "hexNumber"
    /\ LET r == fromHexNumber(input.n)
       IN  /\ heap' = IF r.ok THEN Append(heap, r.val) ELSE heap
           /\ last' = Call("fromHexNumber", input, r,
                           IF r.ok THEN ColorRef(Len(heap) + 1) ELSE Null)
    /\ UNCHANGED <<arr, palette, input>>

\* color.red = value, and so on, for the color at heap index i
Assign(op, i, value, r) ==
    /\ heap' = IF r.ok THEN [heap EXCEPT ![i] = r.val] ELSE heap
    /\ last' = Call(op, [target |-> i, value |-> value], r, Null)
    /\ UNCHANGED <<arr, palette, input>>

SetRed(i, value) == Assign("set red", i, value, setRed(heap[i], value))
SetGreen(i, value) == Assign("set green", i, value, setGreen(heap[i], value))
SetBlue(i, value) == Assign("set blue", i, value, setBlue(heap[i], value))
SetOpacity(i, value) == Assign("set opacity", i, value, setOpacity(heap[i], value))

\* JSON.stringify(color), which calls color.toJSON()
ToJSON(i) ==
    /\ last' = Call("toJSON", ColorRef(i), Ok(Null), toJSON(heap[i]))
    /\ UNCHANGED <<heap, arr, palette, input>>

\* a write to the caller's array, seen by every holder of that array
ArrayWrite(items) ==
    /\ arr' = items
    /\ palette' = IF palette.shared THEN [palette EXCEPT !.colors = items] ELSE palette

\* array.push(new Color(options)) on the caller's array
AddColor(options) ==
    /\ Len(heap) < MaxColors
    /\ LET r == Color(options)
           ref == ColorRef(Len(heap) + 1)
       IN  /\ heap' = IF r.ok THEN Append(heap, r.val) ELSE heap
           /\ ArrayWrite(IF r.ok THEN Append(arr, ref) ELSE arr)
           /\ last' = Call("new Color", options, r, IF r.ok THEN ref ELSE Null)
    /\ UNCHANGED input

\* new ColorPalette({colors, name})
NewPalette(colors, name) ==
    /\ LET r == ColorPalette([colors |-> colors, name |-> name])
       IN  /\ palette' = IF r.ok
                         THEN [exists |-> TRUE, name |-> r.val.name,
                               colors |-> r.val.colors,
                               shared |-> ~r.val.ownArray /\ colors = Arr(arr)]
                         ELSE palette
           /\ last' = Call("new ColorPalette", [colors |-> colors, name |-> name],
                           r, r.val)
    /\ UNCHANGED <<heap, arr, input>>

\* palette.serialize()
Serialize ==
    /\ palette.exists
    /\ last' = Call("serialize", Null, Ok(Null), serialize(View(palette)))
    /\ UNCHANGED <<heap, arr, palette, input>>

\* ColorPalette.deserialize(data); the palette returned holds fresh colors
Deserialize(data) ==
    /\ LET r == deserialize(data)
       IN  last' = Call("deserialize", data, r, r.val)
    /\ UNCHANGED <<heap, arr, palette, input>>

\* array.pop() and array.reverse() on the caller's array
ArrPop ==
    /\ arr # <<>>
    /\ ArrayWrite(SubSeq(arr, 1, Len(arr) - 1))
    /\ last' = Call("pop", Null, Ok(Null), arr[Len(arr)])
    /\ UNCHANGED <<heap, input>>

ArrReverse ==
    /\ ArrayWrite([k \in DOMAIN arr |-> arr[Len(arr) + 1 - k]])
    /\ last' = Call("reverse", Null, Ok(Null), Null)
    /\ UNCHANGED <<heap, input>>

\* color.name = value: name is a public field
SetName(i, value) ==
    /\ heap' = [heap EXCEPT ![i].name = value]
    /\ last' = Call("set name", [target |-> i, value |-> value], Ok(Null), Null)
    /\ UNCHANGED <<arr, palette, input>>

\* what the caller hands to the ColorPalette constructor as colors: its
\* array, its array with something that is no Color in it, or no array
PaletteColorsArgs ==
    {Arr(arr), Arr(Append(arr, EmptyObject)), Arr(<<Null>> \o arr),
     Undefined, Null, Str("invalid"), EmptyObject}

\* Palettes: colors are created, collected in an array, put in a palette,
\* and the palette is serialized and read back.
Next ==
    \/ \E options \in PaletteColorArgs : AddColor(options)
    \/ \E colors \in PaletteColorsArgs, name \in {Undefined, Str("Test")} :
          NewPalette(colors, name)
    \/ Serialize
    \/ last.op = "serialize" /\ Deserialize(last.ret)

Spec == Init /\ [][Next]_vars

\* The Color constructor as a function of its argument.
InitCtor == InitBase /\ input \in CtorInputs
NextCtor == last.op = "init" /\ NewColor(input)
SpecCtor == InitCtor /\ [][NextCtor]_vars

\* One Color object and the writes to it.
NextColor ==
    \/ \E options \in SetterColorArgs : heap = <<>> /\ NewColor(options)
    \/ \E value \in SetterArgs : heap # <<>> /\ SetRed(1, value)
    \/ \E value \in SetterArgs : heap # <<>> /\ SetGreen(1, value)
    \/ \E value \in SetterArgs : heap # <<>> /\ SetBlue(1, value)
    \/ \E value \in SetterArgs \cup {Num(12345000), Num(99996000)} :
          heap # <<>> /\ SetOpacity(1, value)
    \/ heap # <<>> /\ ToJSON(1)
    \/ last.op = "toJSON" /\ Deserialize(JSONText(Obj([colors |-> Arr(<<last.ret>>)])))
SpecColor == Init /\ [][NextColor]_vars

\* A palette and the array and colors it was constructed from, which the
\* caller goes on changing.
ShareColorArgs ==
    <<Options(Str("Red"), Num(Unit), Num(0), Num(0), Undefined, FALSE),
      Options(Undefined, Num(0), Num(Unit), Num(0), Num(50000000), FALSE),
      Options(Str("Blue"), Num(0), Num(0), Num(Unit), Undefined, FALSE)>>

\* the colors are made in this order, over again when it is used up
NextShareColor == ShareColorArgs[(Len(heap) % Len(ShareColorArgs)) + 1]

\* the object the caller writes to: the first color of the palette
Written(i) == palette.exists /\ palette.colors # <<>> /\ palette.colors[1].ref = i

NextShare ==
    \/ AddColor(NextShareColor)
    \/ ~palette.exists /\ NewPalette(Arr(arr), Str("Test"))
    \/ ArrPop
    \/ ArrReverse
    \/ \E i \in DOMAIN heap : Written(i) /\ SetRed(i, Num(55555000))
    \/ \E i \in DOMAIN heap : Written(i) /\ SetGreen(i, Num(55555000))
    \/ \E i \in DOMAIN heap : Written(i) /\ SetBlue(i, Num(55555000))
    \/ \E i \in DOMAIN heap : Written(i) /\ SetOpacity(i, Num(25000000))
    \/ \E i \in DOMAIN heap : Written(i) /\ SetName(i, Str("Renamed"))
    \/ Serialize
SpecShare == Init /\ [][NextShare]_vars

\* One channel of a Color at the resolution of 10^-12: it is written, read
\* and written back, and the color is serialized.
\* values across [0, 1] and beyond, and values at and on both sides of
\* 0.0031308, of 0.0031308 * 12.92 = 0.040449936 and of 0.04045
FineArgs ==
    {Fine(0, 0), Fine(100000, 0), Fine(313080, 0), Fine(313080, 1),
     Fine(313080, 4900), Fine(313080, 7200), Fine(313081, 0), Fine(1000000, 0),
     Fine(4000000, 0), Fine(4044993, 5999), Fine(4044993, 6000),
     Fine(4044993, 6001), Fine(4044995, 0), Fine(4044998, 0),
     Fine(4044999, 9999), Fine(4045000, 0), Fine(4045000, 1), Fine(4046000, 0),
     Fine(12345000, 0), Fine(25000000, 0), Fine(50000000, 0), Fine(55555000, 0),
     Fine(75000000, 0), Fine(99999000, 0), Fine(Unit, 0), Fine(120000000, 0)}
    \cup {Fine(k * (Unit \div 10), 0) : k \in 1..9}

ChannelInputs ==
    {[channel |-> ch, value |-> v] : ch \in {"red", "green", "blue"}, v \in FineArgs}

\* new Color({red: 0, green: 0, blue: 0})
Black ==
    [name |-> Undefined, linearRed |-> <<>>, linearGreen |-> <<>>,
     linearBlue |-> <<>>, opacity |-> FineUnit]

InitChannel ==
    /\ heap = <<Black>>
    /\ arr = <<>>
    /\ palette = NoPalette
    /\ last = Call("init", Null, Ok(Null), Null)
    /\ input \in ChannelInputs

\* color.red = input.value, and so on
WriteFine(ch, c) ==
    /\ last.op = "init"
    /\ input.channel = ch
    /\ heap' = <<c>>
    /\ last' = Call("set " \o ch, input, Ok(Null), Null)
    /\ UNCHANGED <<arr, palette, input>>

SetRedFine == WriteFine("red", setRedFine(heap[1], input.value))
SetGreenFine == WriteFine("green", setGreenFine(heap[1], input.value))
SetBlueFine == WriteFine("blue", setBlueFine(heap[1], input.value))

\* color.red = color.red, and so on
WriteBack(ch, c) ==
    /\ last.op = "set " \o ch
    /\ heap' = <<c>>
    /\ last' = Call("write back " \o ch, [before |-> heap[1]], Ok(Null), Null)
    /\ UNCHANGED <<arr, palette, input>>

WriteBackRed == WriteBack("red", setRedFine(heap[1], getRedFine(heap[1])))
WriteBackGreen == WriteBack("green", setGreenFine(heap[1], getGreenFine(heap[1])))
WriteBackBlue == WriteBack("blue", setBlueFine(heap[1], getBlueFine(heap[1])))

\* color.toJSON()
ToJSONFine ==
    /\ last.op \notin {"init", "toJSON"}
    /\ last' = Call("toJSON", [before |-> heap[1]], Ok(Null), toJSONFine(heap[1]))
    /\ UNCHANGED <<heap, arr, palette, input>>

NextChannel ==
    \/ SetRedFine
    \/ SetGreenFine
    \/ SetBlueFine
    \/ WriteBackRed
    \/ WriteBackGreen
    \/ WriteBackBlue
    \/ ToJSONFine
SpecChannel == InitChannel /\ [][NextChannel]_vars

\* The two transfer functions, one applied to a number of [0, 1] and the
\* other to the result.
TransferArgs == {v \in FineArgs : BigLeq(v, FineUnit)}

InitTransfer == InitBase /\ input \in TransferArgs

\* the number the next function is applied to, and whether it is the input
Operand == IF last.op = "init" THEN input ELSE last.ret

ApplySRGBToLinear ==
    /\ last.op = "init" \/ (last.op = "linearToSRGB" /\ last.arg.first)
    /\ last' = Call("sRGBToLinear", [value |-> Operand, first |-> last.op = "init"],
                    Ok(Null), sRGBToLinearFine(Operand))
    /\ UNCHANGED <<heap, arr, palette, input>>

ApplyLinearToSRGB ==
    /\ last.op = "init" \/ (last.op = "sRGBToLinear" /\ last.arg.first)
    /\ last' = Call("linearToSRGB", [value |-> Operand, first |-> last.op = "init"],
                    Ok(Null), linearToSRGBFine(Operand))
    /\ UNCHANGED <<heap, arr, palette, input>>

NextTransfer == ApplySRGBToLinear \/ ApplyLinearToSRGB
SpecTransfer == InitTransfer /\ [][NextTransfer]_vars

\* palette.serialize() of the palette that deserialize returned
Reserialize ==
    /\ last.op = "deserialize"
    /\ last.ok
    /\ last' = Call("serialize again", last.arg, Ok(Null), serialize(last.ret))
    /\ UNCHANGED <<heap, arr, palette, input>>

\* A palette of colors made by the constructor and written by the setters
\* with values that are no multiples of 0.0001; it is serialized, read back
\* and serialized again.
NextAgain ==
    \/ AddColor(NextShareColor)
    \/ \E i \in DOMAIN heap : ~palette.exists /\ SetRed(i, Num(55555000))
    \/ \E i \in DOMAIN heap : ~palette.exists /\ SetGreen(i, Num(55555000))
    \/ \E i \in DOMAIN heap : ~palette.exists /\ SetBlue(i, Num(55555000))
    \/ \E i \in DOMAIN heap, value \in {Num(12345000), Num(99996000)} :
          ~palette.exists /\ SetOpacity(i, value)
    \/ ~palette.exists /\ NewPalette(Arr(arr), Str("Test"))
    \/ Serialize
    \/ last.op = "serialize" /\ Deserialize(last.ret)
    \/ Reserialize
SpecAgain == Init /\ [][NextAgain]_vars

\* The hex constructors as functions of their argument.
InitHex == InitBase /\ input \in HexInputs
NextHex == FromHexString \/ FromHexNumber
SpecHex == InitHex /\ [][NextHex]_vars

\* deserialize as a function of the text.
InitDoc == InitBase /\ input \in DocInputs
NextDoc == last.op = "init" /\ Deserialize(input)
SpecDoc == InitDoc /\ [][NextDoc]_vars

----------------------------------------------------------------------------
(* Properties                                                              *)

\* C1 -- Round trip: for every palette whose colors were constructed from
\* non-linear numbers (any name, any number of colors, channel values inside
\* or outside [0,1], any opacity), deserialize(serialize()) succeeds and
\* returns a palette with the same name, as many colors in the same order,
\* each with the same name, the same opacity and the same linear components
\* to four decimals.
C1_RoundTrip ==
    palette.exists =>
        LET p == View(palette)
            r == deserialize(serialize(p))
        IN  /\ r.ok
            /\ SameValue(r.val.name, p.name)
            /\ Len(r.val.colors) = Len(p.colors)
            /\ \A i \in DOMAIN p.colors :
                 LET a == p.colors[i].obj
                     b == r.val.colors[i].obj
                 IN  /\ SameValue(b.name, a.name)
                     /\ b.opacity = a.opacity
                     /\ roundToFourDecimals(b.linearRed) = roundToFourDecimals(a.linearRed)
                     /\ roundToFourDecimals(b.linearGreen) = roundToFourDecimals(a.linearGreen)
                     /\ roundToFourDecimals(b.linearBlue) = roundToFourDecimals(a.linearBlue)

\* The reading of a hex string the documentation gives: an optional '#',
\* then 3, 4, 6 or 8 hex digits.
HexBody(str) == IF str # <<>> /\ str[1] = "#" THEN SubSeq(str, 2, Len(str)) ELSE str

WellFormedHex(str) ==
    /\ Len(HexBody(str)) \in {3, 4, 6, 8}
    /\ \A i \in 1..Len(HexBody(str)) : IsHexDigit(HexBody(str)[i])

\* the Color a call of the constructor with non-linear channels returns
SRGBColor(red, green, blue, opacity) ==
    Color(Options(Undefined, Num(red), Num(green), Num(blue), Num(opacity), FALSE)).val

ReferenceHexColor(str) ==
    LET body == HexBody(str)
        d(i) == HexDigitValue[body[i]]
        byte(i) == Ratio(16 * d(2 * i - 1) + d(2 * i), 255)
        digit(i) == Ratio(17 * d(i), 255)
    IN  CASE Len(body) = 3 -> SRGBColor(digit(1), digit(2), digit(3), Unit)
          [] Len(body) = 4 -> SRGBColor(digit(1), digit(2), digit(3), Ratio(d(4), 15))
          [] Len(body) = 6 -> SRGBColor(byte(1), byte(2), byte(3), Unit)
          [] Len(body) = 8 -> SRGBColor(byte(1), byte(2), byte(3), byte(4))

\* C2 -- For every string made of an optional '#' and exactly 3, 4, 6 or 8
\* hex digits in either case, leading zeros included, fromHexString returns
\* the Color of the reference reading of that length.
C2_HexStringReading ==
    (last.op = "fromHexString" /\ WellFormedHex(input.chars)) =>
        /\ last.ok
        /\ heap = <<ReferenceHexColor(input.chars)>>

\* what fromHexNumber is to return for a number, by its magnitude
ReferenceNumberColor(n) ==
    CASE n.hi = 0 /\ n.lo <= 4095 ->
           SRGBColor(Ratio(n.lo \div 256, 15), Ratio((n.lo \div 16) % 16, 15),
                     Ratio(n.lo % 16, 15), Unit)
      [] n.hi = 0 /\ n.lo > 4095 ->
           SRGBColor(Ratio(n.lo \div 4096, 15), Ratio((n.lo \div 256) % 16, 15),
                     Ratio((n.lo \div 16) % 16, 15), Ratio(n.lo % 16, 15))
      [] n.hi > 0 /\ n.hi <= 255 ->
           SRGBColor(Ratio(n.hi, 255), Ratio(n.lo \div 256, 255),
                     Ratio(n.lo % 256, 255), Unit)
      [] n.hi > 255 ->
           SRGBColor(Ratio(n.hi \div 256, 255), Ratio(n.hi % 256, 255),
                     Ratio(n.lo \div 256, 255), Ratio(n.lo % 256, 255))

AcceptedHexNumber(n) ==
    /\ n.t = "number"
    /\ ~n.frac
    /\ ~(n.neg /\ (n.hi # 0 \/ n.lo # 0))
    /\ n.hi <= 65535

Stripped(str) ==
    LET solid == {i \in 1..Len(str) : str[i] \notin WhiteSpace}
    IN  IF solid = {} THEN <<>>
        ELSE SubSeq(str, CHOOSE i \in solid : \A j \in solid : i <= j,
                         CHOOSE i \in solid : \A j \in solid : i >= j)

RejectedHexString ==
    /\ ~last.ok
    /\ last.errType = "Error"
    /\ last.errMsg = "Invalid hex color format"
    /\ last.ret = Null
    /\ heap = <<>>

\* C4 as stated -- fromHexString throws 'Invalid hex color format' for every
\* string that is not an optional '#' followed by exactly 3, 4, 6 or 8 hex
\* digits.
C4_Original ==
    (last.op = "fromHexString" /\ ~WellFormedHex(input.chars)) => RejectedHexString

\* C4 -- fromHexString throws 'Invalid hex color format', and returns no
\* Color, for every string that, with its leading and trailing white space
\* removed, is not an optional '#' followed by exactly 3, 4, 6 or 8 hex
\* digits.
C4_InvalidHexString ==
    (last.op = "fromHexString" /\ ~WellFormedHex(Stripped(input.chars))) =>
        RejectedHexString

C4_Witness ==
    /\ last.op = "fromHexString"
    /\ RejectedHexString
    /\ Len(input.chars) = 3
    /\ \E i \in 1..Len(input.chars) : input.chars[i] = "g"

HasColorsArray(value) ==
    /\ value.t = "object"
    /\ "colors" \in DOMAIN value.fields
    /\ value.fields.colors.t = "array"

\* C5 -- For every valid JSON text whose top-level value carries no array
\* under colors (an object without colors or with colors that is no array,
\* a top-level null, number, string, boolean or array), deserialize fails
\* with a TypeError whose message is exactly 'Colors must be an array' and
\* returns no palette.
C5_ColorsMustBeArray ==
    (last.op = "deserialize" /\ input.t = "json" /\ ~HasColorsArray(input.value)) =>
        /\ ~last.ok
        /\ last.errType = "TypeError"
        /\ last.errMsg = "Colors must be an array"
        /\ last.ret = Null

\* the message the validation of one color entry is to fail with, "" if none
EntryFault(entry) ==
    LET components == IF entry.t = "object" /\ "components" \in DOMAIN entry.fields
                      THEN entry.fields.components
                      ELSE Undefined
    IN  CASE components.t # "array" -> "Components must be an array"
          [] Len(components.items) \notin {3, 4} -> "Components must have 3 or 4 values"
          [] \E i \in 1..Len(components.items) :
                \/ components.items[i].t # "number"
                \/ components.items[i].v < 0 -> "Component values must be numbers"
          [] OTHER -> ""

\* C6 -- For a document with a colors array, deserialize fails at the first
\* entry, in document order, that offends, with 'Components must be an
\* array', else 'Components must have 3 or 4 values', else 'Component values
\* must be numbers' (an element that is no number or is negative, the alpha
\* included); the document is accepted exactly when no entry offends.
C6_EntryValidation ==
    (last.op = "deserialize" /\ input.t = "json" /\ HasColorsArray(input.value)) =>
        LET entries == input.value.fields.colors.items
            faulty == {i \in 1..Len(entries) : EntryFault(entries[i]) # ""}
        IN  IF faulty = {}
            THEN last.ok /\ Len(last.ret.colors) = Len(entries)
            ELSE /\ ~last.ok
                 /\ last.errMsg =
                      EntryFault(entries[CHOOSE i \in faulty : \A j \in faulty : i <= j])

\* the opacity argument of a constructor call, 1 when it is missing
GivenOpacity(options) ==
    IF options.opacity.t = "undefined" THEN Unit ELSE options.opacity.v

OnGrid(x) == x % Half = 0

\* x rounded to the nearest multiple of 0.0001, a half rounding up
NearestGrid(x) ==
    LET rest == x % Half
    IN  IF 2 * rest >= Half THEN x - rest + Half ELSE x - rest

\* 1 above 1, 0 below 0
Clamped(v) ==
    CASE v > Unit -> Unit
      [] v < 0 -> 0
      [] OTHER -> v

\* C7 as stated -- after a constructor or the opacity setter set opacity to
\* v, the getter returns 1 for v > 1, 0 for v < 0 and v rounded to four
\* decimals otherwise; the stored opacity is always in [0,1] and a multiple
\* of 0.0001.
C7_Original ==
    /\ (last.op = "new Color" /\ last.ok) =>
          getOpacity(heap[1]) = NearestGrid(Clamped(GivenOpacity(last.arg)))
    /\ (last.op = "set opacity" /\ last.ok) =>
          getOpacity(heap[1]) = NearestGrid(Clamped(last.arg.value.v))
    /\ heap # <<>> =>
          /\ getOpacity(heap[1]) >= 0
          /\ getOpacity(heap[1]) <= Unit
          /\ OnGrid(getOpacity(heap[1]))

\* C7 -- after the constructor set opacity to v the getter returns the clamped
\* v rounded to four decimals, a multiple of 0.0001; after the opacity setter
\* it returns the clamped v itself, not rounded (1 for v > 1, 0 for v < 0,
\* v for 0 <= v <= 1); the stored opacity is always in [0,1].
C7_OpacityClamp ==
    /\ (last.op = "new Color" /\ last.ok) =>
          /\ getOpacity(heap[1]) = NearestGrid(Clamped(GivenOpacity(last.arg)))
          /\ OnGrid(getOpacity(heap[1]))
    /\ (last.op = "set opacity" /\ last.ok) =>
          getOpacity(heap[1]) = Clamped(last.arg.value.v)
    /\ heap # <<>> =>
          /\ getOpacity(heap[1]) >= 0
          /\ getOpacity(heap[1]) <= Unit

C7_Witness ==
    /\ last.op = "set opacity"
    /\ last.ok
    /\ last.arg.value.v = 12345000
    /\ getOpacity(heap[1]) = 12345000

RoundingExample(options) ==
    /\ options.isLinear
    /\ options.red = Num(12345000)
    /\ options.green = Num(12350000)
    /\ options.blue = Num(12344000)
    /\ options.opacity = Num(12349000)

\* C8 -- a Color constructed with isLinear true stores each non-negative
\* channel, and the opacity, as the input rounded to the nearest multiple of
\* 0.0001, a half at the fifth decimal rounding up; red 0.12345, green
\* 0.1235, blue 0.12344, opacity 0.12349 is stored as 0.1235, 0.1235,
\* 0.1234, 0.1235 and toJSON emits these four components.
C8_LinearRounding ==
    (last.op = "new Color" /\ last.ok /\ input.isLinear) =>
        LET c == heap[1]
        IN  /\ input.red.v >= 0 => c.linearRed = NearestGrid(input.red.v)
            /\ input.green.v >= 0 => c.linearGreen = NearestGrid(input.green.v)
            /\ input.blue.v >= 0 => c.linearBlue = NearestGrid(input.blue.v)
            /\ (GivenOpacity(input) >= 0 /\ GivenOpacity(input) <= Unit) =>
                  c.opacity = NearestGrid(GivenOpacity(input))
            /\ RoundingExample(input) =>
                  /\ linearComponents(c) =
                        [red |-> 12350000, green |-> 12350000,
                         blue |-> 12340000, opacity |-> 12350000]
                  /\ toJSON(c).fields.components.items =
                        <<Num(12350000), Num(12350000), Num(12340000), Num(12350000)>>

C8_Witness ==
    /\ last.op = "new Color"
    /\ last.ok
    /\ RoundingExample(input)
    /\ linearComponents(heap[1]) =
          [red |-> 12350000, green |-> 12350000, blue |-> 12340000,
           opacity |-> 12350000]

\* the arguments of the constructor in the order they are checked, opacity
\* with its default, and the names the messages use
CheckedArgs(options) ==
    <<options.red, options.green, options.blue,
      IF options.opacity.t = "undefined" THEN Num(Unit) ELSE options.opacity>>

ChannelNames == <<"Red", "Green", "Blue", "Opacity">>

\* C9 -- the constructor accepts any numbers for red, green and blue, below 0
\* and above 1 included; it checks red, green, blue, opacity in that order
\* and throws a TypeError '<Channel> component must be a number' for the
\* first that is not a number (a missing channel is not a number, a missing
\* opacity is 1), constructing no Color.
C9_CtorValidation ==
    last.op = "new Color" =>
        LET args == CheckedArgs(input)
            wrong == {i \in 1..4 : args[i].t # "number"}
        IN  IF wrong = {}
            THEN last.ok /\ Len(heap) = 1
            ELSE /\ ~last.ok
                 /\ last.errType = "TypeError"
                 /\ last.errMsg =
                      ChannelNames[CHOOSE i \in wrong : \A j \in wrong : i <= j]
                         \o " component must be a number"
                 /\ last.ret = Null
                 /\ heap = <<>>

C9_Witness ==
    /\ last.op = "new Color"
    /\ ~last.ok
    /\ input.red.t = "number"
    /\ input.green.t = "undefined"
    /\ input.blue.t = "string"
    /\ last.errMsg = "Green component must be a number"

OnlyColors(items) == \A i \in 1..Len(items) : items[i].t = "Color"

\* C10 -- the ColorPalette constructor throws a TypeError when colors is no
\* array and when an element of colors is no Color, producing no palette;
\* colors defaults to empty.  Every palette the constructor or deserialize
\* produced holds only Color instances.
C10_PaletteHoldsColors ==
    /\ last.op = "new ColorPalette" =>
          LET colors == last.arg.colors
          IN  /\ last.ok <=>
                    \/ colors.t = "undefined"
                    \/ colors.t = "array" /\ OnlyColors(colors.items)
              /\ ~last.ok => last.errType = "TypeError" /\ last.ret = Null
              /\ (last.ok /\ colors.t = "undefined") => last.ret.colors = <<>>
              /\ last.ok => OnlyColors(last.ret.colors)
    /\ palette.exists => OnlyColors(palette.colors)
    /\ (last.op = "deserialize" /\ last.ok) => OnlyColors(last.ret.colors)

C10_Witness ==
    /\ last.op = "new ColorPalette"
    /\ ~last.ok
    /\ last.arg.colors.t = "array"
    /\ Len(last.arg.colors.items) >= 2
    /\ \E i \in 1..Len(last.arg.colors.items) : last.arg.colors.items[i].t = "Color"

----------------------------------------------------------------------------
\* C11 -- Shallow copy: a ColorPalette holds, in an array of its own, the
\* very Color objects of the sequence it was constructed from.  Adding,
\* removing or reordering elements of the caller's array afterwards leaves
\* the palette's colors (length, order, elements) unchanged; a later write
\* to a Color that was passed in (a channel or opacity setter, or its name)
\* leaves the palette's colors the same objects, so that the write is seen
\* through them and in the next serialize().
CallerArrayOps == {"new Color", "pop", "reverse"}
ColorWriteOps == {"set red", "set green", "set blue", "set opacity", "set name"}

\* the JSON entry of the color object behind element k of the palette
EntryOf(p, objects, k) == toJSON(objects[p.colors[k].ref])

C11_ShallowCopy ==
    [][/\ (last'.op = "new ColorPalette" /\ last'.ok) =>
             palette'.colors = last'.arg.colors.items
       /\ last'.op \in CallerArrayOps => palette'.colors = palette.colors
       /\ last'.op \in ColorWriteOps =>
             /\ palette'.colors = palette.colors
             /\ \A k \in DOMAIN palette.colors :
                   palette.colors[k].ref = last'.arg.target =>
                      \/ ~last'.ok
                      \/ last'.op = "set red" /\
                           heap'[palette'.colors[k].ref].linearRed
                              = sRGBToLinear(last'.arg.value.v)
                      \/ last'.op = "set green" /\
                           heap'[palette'.colors[k].ref].linearGreen
                              = sRGBToLinear(last'.arg.value.v)
                      \/ last'.op = "set blue" /\
                           heap'[palette'.colors[k].ref].linearBlue
                              = sRGBToLinear(last'.arg.value.v)
                      \/ last'.op = "set opacity" /\
                           heap'[palette'.colors[k].ref].opacity
                              = clampOpacity(last'.arg.value.v)
                      \/ last'.op = "set name" /\
                           heap'[palette'.colors[k].ref].name = last'.arg.value
       /\ last'.op = "serialize" =>
             LET written == last'.ret.value.fields.colors.items
             IN  /\ Len(written) = Len(palette.colors)
                 /\ \A k \in DOMAIN written : written[k] = EntryOf(palette, heap, k)
      ]_vars

\* the caller's array was changed after the palette was made from it, a
\* color of the palette was renamed and had its red channel written, and
\* the palette's serialization shows both
C11_Witness ==
    /\ palette.exists
    /\ Len(palette.colors) = 2
    /\ Len(arr) < 2
    /\ last.op = "serialize"
    /\ \E k \in DOMAIN palette.colors :
          LET c == heap[palette.colors[k].ref]
              entry == last.ret.value.fields.colors.items[k]
          IN  /\ c.linearRed = sRGBToLinear(55555000)
              /\ c.name = Str("Renamed")
              /\ entry.fields.name = Str("Renamed")
              /\ entry.fields.components.items[1]
                    = Num(roundToFourDecimals(sRGBToLinear(55555000)))

----------------------------------------------------------------------------
\* C12 -- Optional opacity: toJSON writes components with exactly 3 values
\* (linear red, green, blue, each rounded to 4 decimals) when the stored
\* opacity is exactly 1, and exactly 4 values, the 4th being the opacity
\* rounded to 4 decimals, when it differs from 1; deserialize reads an
\* entry of 3 values as a color of opacity 1.
C12_OptionalOpacity ==
    /\ last.op = "toJSON" =>
          LET c == heap[last.arg.ref]
              written == last.ret.fields.components.items
          IN  /\ Len(written) = IF c.opacity = Unit THEN 3 ELSE 4
              /\ written[1] = Num(roundToFourDecimals(c.linearRed))
              /\ written[2] = Num(roundToFourDecimals(c.linearGreen))
              /\ written[3] = Num(roundToFourDecimals(c.linearBlue))
              /\ c.opacity # Unit => written[4] = Num(roundToFourDecimals(c.opacity))
    /\ (last.op = "deserialize" /\ last.ok) =>
          LET entries == last.arg.value.fields.colors.items
          IN  \A k \in DOMAIN entries :
                 Len(entries[k].fields.components.items) = 3 =>
                    last.ret.colors[k].obj.opacity = Unit

\* an opacity just below 1 is written as a 4th value, which is 1
C12_Witness ==
    /\ last.op = "toJSON"
    /\ heap[last.arg.ref].opacity = 99996000
    /\ Len(last.ret.fields.components.items) = 4
    /\ last.ret.fields.components.items[4] = Num(Unit)

----------------------------------------------------------------------------
\* C13 -- The channel setters do not round and serialization does not
\* write back: after color.red = v (likewise green, blue) the stored linear
\* value is sRGBToLinear(v), not its rounding to 4 decimals; reading a
\* channel and writing the value read back leaves the stored linear value
\* unchanged within the tolerance of 10^-9; toJSON gives the stored values
\* rounded to 4 decimals and leaves the stored values as they were.
Stored(c, ch) ==
    CASE ch = "red" -> c.linearRed
      [] ch = "green" -> c.linearGreen
      [] ch = "blue" -> c.linearBlue

\* the stored values just above 0.0031308 that a getter returns as a value
\* of at most 0.04045, which the setter then divides by 12.92
InLinearBand(linear) ==
    /\ ~BigLeq(linear, Fine(313080, 0))
    /\ BigLeq(linearToSRGBFine(linear), Fine(4045000, 0))

\* the most a stored value of that band moves: 2.4 * 10^-9
BandDrift == <<2400>>

NoRounding ==
    \A ch \in {"red", "green", "blue"} :
       last.op = "set " \o ch =>
          Stored(heap[1], ch) = sRGBToLinearFine(last.arg.value)

NoWriteBack ==
    last.op = "toJSON" =>
       /\ heap[1] = last.arg.before
       /\ last.ret = <<roundToFourDecimalsFine(heap[1].linearRed),
                       roundToFourDecimalsFine(heap[1].linearGreen),
                       roundToFourDecimalsFine(heap[1].linearBlue)>>

\* the claim as it stands: the tolerance holds for every stored value
C13_Original ==
    /\ NoRounding
    /\ NoWriteBack
    /\ \A ch \in {"red", "green", "blue"} :
          last.op = "write back " \o ch =>
             BigLeq(BigDist(Stored(heap[1], ch), Stored(last.arg.before, ch)),
                    Tolerance)

\* C13 as amended: the same, but a stored value in the band just above
\* 0.0031308 moves by more than the tolerance, and by at most 2.4 * 10^-9,
\* when the channel is read and written back.
C13_SettersKeepPrecision ==
    /\ NoRounding
    /\ NoWriteBack
    /\ \A ch \in {"red", "green", "blue"} :
          last.op = "write back " \o ch =>
             LET before == Stored(last.arg.before, ch)
                 drift == BigDist(Stored(heap[1], ch), before)
             IN  IF InLinearBand(before)
                 THEN BigLeq(drift, BandDrift)
                 ELSE BigLeq(drift, Tolerance)

\* red was set to 0.04045 and stored as 0.04045 / 12.92, unrounded, and
\* reading it and writing it back moved it by more than the tolerance
C13_Witness ==
    /\ last.op = "write back red"
    /\ input.value = Fine(4045000, 0)
    /\ last.arg.before.linearRed = BigDivSmall(BigMulSmall(input.value, 100), 1292)
    /\ last.arg.before.linearRed # roundToFourDecimalsFine(last.arg.before.linearRed)
    /\ ~BigLeq(BigDist(heap[1].linearRed, last.arg.before.linearRed), Tolerance)

----------------------------------------------------------------------------
\* C14 -- The two transfer functions are inverses: for all s in [0, 1],
\* linearToSRGB(sRGBToLinear(s)) equals s within the tolerance of 10^-9,
\* and for all l in [0, 1], sRGBToLinear(linearToSRGB(l)) equals l within
\* the same tolerance, also at and on both sides of the thresholds 0.04045
\* and 0.0031308.
C14_Original ==
    (last.op \in {"sRGBToLinear", "linearToSRGB"} /\ ~last.arg.first) =>
       BigLeq(BigDist(last.ret, input), Tolerance)

\* the values s <= 0.04045 with s / 12.92 > 0.0031308: sRGBToLinear divides
\* and linearToSRGB takes the power
InSRGBBand(srgb) ==
    /\ BigLeq(srgb, Fine(4045000, 0))
    /\ ~BigLeq(sRGBToLinearFine(srgb), Fine(313080, 0))

\* the most a value of that band is off: 3 * 10^-8
BandGap == <<0, 3>>

\* C14 as amended: the round trips are within the tolerance except in the
\* two bands where the functions take different pieces: s in
\* (0.040449936, 0.04045] comes back lower by up to 3 * 10^-8, and l just
\* above 0.0031308 with linearToSRGB(l) <= 0.04045 comes back lower by up
\* to 2.4 * 10^-9.
C14_TransferInverse ==
    /\ (last.op = "linearToSRGB" /\ ~last.arg.first) =>
          IF InSRGBBand(input)
          THEN BigLeq(last.ret, input) /\ BigLeq(BigSub(input, last.ret), BandGap)
          ELSE BigLeq(BigDist(last.ret, input), Tolerance)
    /\ (last.op = "sRGBToLinear" /\ ~last.arg.first) =>
          IF InLinearBand(input)
          THEN BigLeq(last.ret, input) /\ BigLeq(BigSub(input, last.ret), BandDrift)
          ELSE BigLeq(BigDist(last.ret, input), Tolerance)

\* linearToSRGB(sRGBToLinear(0.04045)) is below 0.04045 by more than the
\* tolerance
C14_Witness ==
    /\ last.op = "linearToSRGB"
    /\ ~last.arg.first
    /\ input = Fine(4045000, 0)
    /\ last.arg.value = sRGBToLinearFine(input)
    /\ ~BigLeq(BigDist(last.ret, input), Tolerance)

----------------------------------------------------------------------------
\* C15 -- A failed setter changes nothing: assigning what is no number to
\* red, green, blue or opacity throws a TypeError that mentions number and
\* leaves the four stored values and the name as they were; a successful
\* assignment to one channel or to the opacity leaves the other three
\* stored values and the name as they were.
SetterOps == {"set red", "set green", "set blue", "set opacity"}

NumberMessages ==
    {"Red component must be a number", "Green component must be a number",
     "Blue component must be a number", "Opacity must be a number"}

\* the fields of a color that an assignment to its property must not touch
Others(op, c) ==
    CASE op = "set red" -> <<c.name, c.linearGreen, c.linearBlue, c.opacity>>
      [] op = "set green" -> <<c.name, c.linearRed, c.linearBlue, c.opacity>>
      [] op = "set blue" -> <<c.name, c.linearRed, c.linearGreen, c.opacity>>
      [] op = "set opacity" -> <<c.name, c.linearRed, c.linearGreen, c.linearBlue>>

C15_SetterFrame ==
    [][last'.op \in SetterOps =>
         LET i == last'.arg.target
         IN  /\ Len(heap') = Len(heap)
             /\ \A k \in DOMAIN heap : k # i => heap'[k] = heap[k]
             /\ last'.arg.value.t # "number" =>
                   /\ ~last'.ok
                   /\ last'.errType = "TypeError"
                   /\ last'.errMsg \in NumberMessages
             /\ ~last'.ok =>
                   /\ linearComponents(heap'[i]) = linearComponents(heap[i])
                   /\ heap'[i].name = heap[i].name
             /\ last'.ok => Others(last'.op, heap'[i]) = Others(last'.op, heap[i])
      ]_vars

\* a color whose red was written is assigned an opacity that is no number
C15_Witness ==
    /\ last.op = "set opacity"
    /\ last.arg.value = Str("invalid")
    /\ ~last.ok
    /\ last.errMsg = "Opacity must be a number"
    /\ heap[1].linearRed = sRGBToLinear(55555000)
    /\ heap[1].name = Str("Test")

----------------------------------------------------------------------------
\* C16 -- Serialization is a fixed point after one round trip: for every
\* palette made by constructors and setters (also with colors whose
\* channels or opacity were last written by a setter with a value that is
\* no multiple of 0.0001) whose serialization deserialize accepts, the
\* rounding done in deserialize changes no value, and the serialization of
\* the palette read back is the very text that was read.
ReadOpacity(entry) ==
    LET written == entry.fields.components.items
    IN  IF Len(written) >= 4 THEN written[4].v ELSE Unit

C16_FixedPoint ==
    /\ (last.op = "deserialize" /\ last.ok) =>
          LET entries == last.arg.value.fields.colors.items
          IN  \A k \in DOMAIN entries :
                 LET written == entries[k].fields.components.items
                     c == last.ret.colors[k].obj
                 IN  /\ c.linearRed = written[1].v
                     /\ c.linearGreen = written[2].v
                     /\ c.linearBlue = written[3].v
                     /\ c.opacity = ReadOpacity(entries[k])
    /\ last.op = "serialize again" => last.ret = last.arg

----------------------------------------------------------------------------
\* C17 -- The rounding to 4 decimals is symmetric (half away from zero):
\* for every x, rounding -x gives the negation of rounding x, so that a
\* linear channel of -0.12345 is stored as -0.1235 just as 0.12345 is
\* stored as 0.1235.
Negated(x) == 0 - x

ChannelsOf(options) == <<options.red, options.green, options.blue>>

C17_SymmetricRounding ==
    (last.op = "new Color" /\ last.ok /\ last.arg.isLinear) =>
       LET given == ChannelsOf(last.arg)
           c == heap[last.ret.ref]
           stored == <<c.linearRed, c.linearGreen, c.linearBlue>>
       IN  \A k \in DOMAIN given :
              /\ stored[k] = Negated(roundToFourDecimals(Negated(given[k].v)))
              /\ given[k].v = 12345000 => stored[k] = 12350000
              /\ given[k].v = Negated(12345000) => stored[k] = Negated(12350000)

====
